---- MODULE Spec2Model ----
(***************************************************************************)
(* A model of the in-memory todo service of src/routers/todos.py: the      *)
(* todos_db list, the request handlers registered on the router, the       *)
(* pydantic request/response models that guard them and the order in which *)
(* the router resolves a path to a handler.                                *)
(*                                                                         *)
(* Conventions.                                                            *)
(*  - A Python str is a sequence of one-character strings; a character     *)
(*    outside ASCII is written as its code point ("u5b66").                *)
(*  - An Optional value is a sequence of length at most one: None is <<>>  *)
(*    and a value v is <<v>>.                                              *)
(*  - A request body is a function from the fields the client sent to      *)
(*    Optional values (JSON null is None); a field the client did not send *)
(*    is not in its domain.                                                *)
(*  - datetime.now().isoformat() strings are ordered like the instants     *)
(*    they denote, and are modelled by the reading of a clock that never   *)
(*    runs backwards.                                                      *)
(*  - uuid4() is modelled as drawing the next unused element of UUIDs.     *)
(***************************************************************************)
EXTENDS Integers, Sequences, FiniteSets, TLC

VARIABLES todos_db, clock, issued, ops, last

vars == <<todos_db, clock, issued, ops, last>>

\* ---------------------------------------------------------------- bounds

\* Creations, updates and marks in one run (the deletions are bounded by
\* the size of the collection).
MaxOps == 2
\* Identifiers generate_id hands out in one run (three go to the samples).
MaxIds == 4
\* The last reading of the clock.
MaxClock == 1

\* ------------------------------------------------------------- constants

TitleMinLen == 1
TitleMaxLen == 100
DescriptionMaxLen == 500
DefaultSkip == 0
DefaultLimit == 10

\* ------------------------------------------------------------ Python str

None == <<>>
Some(v) == <<v>>

Min(a, b) == IF a <= b THEN a ELSE b
Max(a, b) == IF a >= b THEN a ELSE b

Rep(c, n) == [i \in 1..n |-> c]

UpperCase == <<"A", "B", "C", "D", "E", "F", "G", "H", "I", "J", "K", "L", "M",
               "N", "O", "P", "Q", "R", "S", "T", "U", "V", "W", "X", "Y", "Z">>
LowerCase == <<"a", "b", "c", "d", "e", "f", "g", "h", "i", "j", "k", "l", "m",
               "n", "o", "p", "q", "r", "s", "t", "u", "v", "w", "x", "y", "z">>

\* str.lower(), one character
LowerChar(c) ==
    IF \E i \in 1..26 : UpperCase[i] = c
    THEN LowerCase[CHOOSE i \in 1..26 : UpperCase[i] = c]
    ELSE c

\* str.lower()
Lower(s) == [i \in 1..Len(s) |-> LowerChar(s[i])]

IsSpace(c) == c \in {" ", "\t", "\n"}

RECURSIVE LStrip(_)
LStrip(s) == IF s # <<>> /\ IsSpace(Head(s)) THEN LStrip(Tail(s)) ELSE s

RECURSIVE RStrip(_)
RStrip(s) ==
    IF s # <<>> /\ IsSpace(s[Len(s)]) THEN RStrip(SubSeq(s, 1, Len(s) - 1)) ELSE s

\* str.strip()
Strip(s) == RStrip(LStrip(s))

\* sub in s
Contains(s, sub) ==
    \E i \in 0..(Len(s) - Len(sub)) : SubSeq(s, i + 1, i + Len(sub)) = sub

\* seq[lo:hi], negative indices counted from the end as Python does
SliceIndex(n, i) == IF i < 0 THEN Max(n + i, 0) ELSE Min(i, n)
PySlice(seq, lo, hi) ==
    SubSeq(seq, SliceIndex(Len(seq), lo) + 1, SliceIndex(Len(seq), hi))

\* A response body is a record: a JSON object is the record of its members,
\* a JSON array the record holding the array.
JsonArray(seq) == [array |-> seq]

\* ----------------------------------------------------------------- enums

TodoPriority == <<"low", "medium", "high">>
TodoStatus == <<"pending", "in_progress", "completed">>

PriorityValues == {TodoPriority[i] : i \in 1..3}
StatusValues == {TodoStatus[i] : i \in 1..3}

\* str(member) of a class that mixes str into Enum is the qualified member
\* name, not the value
StrOfPriority(p) ==
    CASE p = "low" -> "TodoPriority.LOW"
      [] p = "medium" -> "TodoPriority.MEDIUM"
      [] p = "high" -> "TodoPriority.HIGH"
StrOfStatus(s) ==
    CASE s = "pending" -> "TodoStatus.PENDING"
      [] s = "in_progress" -> "TodoStatus.IN_PROGRESS"
      [] s = "completed" -> "TodoStatus.COMPLETED"

\* ------------------------------------------------------- pydantic models

UpdateFields == {"title", "description", "priority", "status", "due_date"}

Supplied(body, f) == f \in DOMAIN body
NonNull(body, f) == Supplied(body, f) /\ body[f] # None

\* TodoCreate: the body validates
TodoCreate(body) ==
    /\ NonNull(body, "title")
    /\ Len(body["title"][1]) >= TitleMinLen
    /\ Len(body["title"][1]) <= TitleMaxLen
    /\ NonNull(body, "description") => Len(body["description"][1]) <= DescriptionMaxLen
    /\ Supplied(body, "priority") =>
          /\ body["priority"] # None
          /\ body["priority"][1] \in PriorityValues

\* TodoUpdate: the body validates
TodoUpdate(body) ==
    /\ NonNull(body, "title") =>
          /\ Len(body["title"][1]) >= TitleMinLen
          /\ Len(body["title"][1]) <= TitleMaxLen
    /\ NonNull(body, "description") => Len(body["description"][1]) <= DescriptionMaxLen
    /\ NonNull(body, "priority") => body["priority"][1] \in PriorityValues
    /\ NonNull(body, "status") => body["status"][1] \in StatusValues

\* StatsResponse: the handler's dict validates (every field without a default
\* is there)
StatsResponse(d) ==
    {"total_todos", "by_status", "by_priority", "completion_rate",
     "highest_priority_count"} \subseteq DOMAIN d

\* ------------------------------------------------------------ utilities

UUIDs == <<"id1", "id2", "id3", "id4", "id5", "id6", "id7", "id8">>

\* generate_id(): the next identifier never handed out before
generate_id == UUIDs[issued + 1]

\* get_current_timestamp() called when the last reading was c
get_current_timestamp(c) == c..Min(c + 1, MaxClock)

RECURSIVE find_index(_, _, _)
find_index(db, todo_id, i) ==
    IF i > Len(db) THEN 0
    ELSE IF db[i]["id"] = todo_id THEN i
    ELSE find_index(db, todo_id, i + 1)

\* find_todo_by_id: the position of the first todo with that id, 0 for None
find_todo_by_id(db, todo_id) == find_index(db, todo_id, 1)

\* the value todo[field] = value stores
Stored(field, optional) ==
    IF field \in {"description", "due_date"} THEN optional ELSE optional[1]

\* safe_todo_update without its test for None on the nullable fields
safe_todo_update_nulls(todo, update_data, now) ==
    [f \in DOMAIN todo |->
        IF f = "updated_at" THEN now
        ELSE IF /\ f \in DOMAIN update_data
                /\ (update_data[f] # None \/ f \in {"description", "due_date"})
             THEN Stored(f, update_data[f])
        ELSE todo[f]]

\* safe_todo_update(todo, update_data) at time now
safe_todo_update(todo, update_data, now) ==
    [f \in DOMAIN todo |->
        IF f = "updated_at" THEN now
        ELSE IF f \in DOMAIN update_data /\ update_data[f] # None
             THEN Stored(f, update_data[f])
        ELSE todo[f]]

\* ------------------------------------------------------------ sample data

SampleTodo(id, title, description, priority, status, due_date, c, u) ==
    [id |-> id, title |-> title, description |-> Some(description),
     priority |-> priority, status |-> status, due_date |-> Some(due_date),
     created_at |-> c, updated_at |-> u]

\* initialize_sample_data(), its six clock readings being t[1] .. t[6]
initialize_sample_data(t) ==
    << SampleTodo(UUIDs[1],
                  <<"u5b66", "u4e60", "F", "a", "s", "t", "A", "P", "I">>,
                  <<"u5b8c", "u6210", "u7b2c", "u4e09", "u5929", "u7684",
                    "u5b66", "u4e60", "u4efb", "u52a1">>,
                  "high", "completed", "2024-01-01", t[1], t[2]),
       SampleTodo(UUIDs[2],
                  <<"u7f16", "u5199", "T", "o", "d", "o", " ", "A", "P", "I">>,
                  <<"u5b9e", "u73b0", "C", "R", "U", "D", "u64cd", "u4f5c">>,
                  "medium", "in_progress", "2024-01-02", t[3], t[4]),
       SampleTodo(UUIDs[3],
                  <<"u5b66", "u4e60", "u5f02", "u6b65", "u7f16", "u7a0b">>,
                  <<"u7406", "u89e3", "a", "s", "y", "n", "c", "/", "a", "w",
                    "a", "i", "t", "u8bed", "u6cd5">>,
                  "low", "pending", "2024-01-03", t[5], t[6]) >>

\* The clock readings of start-up: all within one tick.
SampleTimes == { [i \in 1..6 |-> 0] }

\* --------------------------------------------------------------- routing

\* The router's routes in the order the decorators register them; a path is
\* the sequence of its segments after the router's prefix, a trailing slash
\* being an empty last segment ("/" is <<"">>, "/search/" is <<"search", "">>).
Routes ==
    << [method |-> "GET",    path |-> <<"">>,                       endpoint |-> "get_all_todos"],
       [method |-> "GET",    path |-> <<"{todo_id}">>,              endpoint |-> "get_todo_by_id"],
       [method |-> "POST",   path |-> <<"">>,                       endpoint |-> "create_todo"],
       [method |-> "PUT",    path |-> <<"{todo_id}">>,              endpoint |-> "update_todo"],
       [method |-> "PATCH",  path |-> <<"{todo_id}">>,              endpoint |-> "partial_update_todo"],
       [method |-> "DELETE", path |-> <<"{todo_id}">>,              endpoint |-> "delete_todo"],
       [method |-> "GET",    path |-> <<"stats", "summary">>,       endpoint |-> "get_todo_stats"],
       [method |-> "PATCH",  path |-> <<"{todo_id}", "complete">>,  endpoint |-> "mark_todo_complete"],
       [method |-> "PATCH",  path |-> <<"{todo_id}", "start">>,     endpoint |-> "start_todo"],
       [method |-> "GET",    path |-> <<"search", "">>,             endpoint |-> "search_todos"] >>

\* A path parameter matches one non-empty segment.
SegmentMatches(pattern, segment) ==
    IF pattern = "{todo_id}" THEN segment # "" ELSE pattern = segment

PathMatches(pattern, path) ==
    /\ Len(pattern) = Len(path)
    /\ \A i \in 1..Len(path) : SegmentMatches(pattern[i], path[i])

\* The path with its trailing slash added or removed.
ToggleSlash(path) ==
    IF path[Len(path)] = "" THEN SubSeq(path, 1, Len(path) - 1) ELSE Append(path, "")

\* The endpoint a request is dispatched to: the first route whose path and
\* method match; failing that 405 when some path matches, 307 when the path
\* with its slash toggled matches a route, and 404 otherwise.
Dispatch(method, path) ==
    LET full == {i \in 1..Len(Routes) :
                    PathMatches(Routes[i].path, path) /\ Routes[i].method = method}
        partial == {i \in 1..Len(Routes) : PathMatches(Routes[i].path, path)}
        other == IF path = <<"">> THEN {}
                 ELSE {i \in 1..Len(Routes) : PathMatches(Routes[i].path, ToggleSlash(path))}
    IN  IF full # {} THEN Routes[CHOOSE i \in full : \A j \in full : i <= j].endpoint
        ELSE IF partial # {} THEN "405"
        ELSE IF other # {} THEN "307"
        ELSE "404"

\* -------------------------------------------------------------- handlers
\* A handler's outcome is [db, code, body]: the collection it leaves, the
\* status code and the response body.

NotFound(db, todo_id) ==
    [db |-> db, code |-> 404, body |-> [detail |-> todo_id]]

\* get_all_todos slicing [skip : limit]
get_all_todos_limit(db, skip, limit, status_filter, priority) ==
    LET ByStatus(todo) == todo["status"] = status_filter[1]
        ByPriority(todo) == todo["priority"] = priority[1]
        f1 == IF status_filter # None THEN SelectSeq(db, ByStatus) ELSE db
        f2 == IF priority # None THEN SelectSeq(f1, ByPriority) ELSE f1
    IN  [db |-> db, code |-> 200, body |-> JsonArray(PySlice(f2, skip, limit))]

\* get_all_todos
get_all_todos(db, skip, limit, status_filter, priority) ==
    LET ByStatus(todo) == todo["status"] = status_filter[1]
        ByPriority(todo) == todo["priority"] = priority[1]
        f1 == IF status_filter # None THEN SelectSeq(db, ByStatus) ELSE db
        f2 == IF priority # None THEN SelectSeq(f1, ByPriority) ELSE f1
    IN  [db |-> db, code |-> 200, body |-> JsonArray(PySlice(f2, skip, skip + limit))]

\* get_todo_by_id
get_todo_by_id(db, todo_id) ==
    LET i == find_todo_by_id(db, todo_id)
    IN  IF i = 0 THEN NotFound(db, todo_id)
        ELSE [db |-> db, code |-> 200, body |-> db[i]]

\* create_todo reading the clock for updated_at before created_at
create_todo_swapped(db, todo, id, t1, t2) ==
    LET new_todo ==
            [id |-> id,
             title |-> todo["title"][1],
             description |-> IF Supplied(todo, "description") THEN todo["description"] ELSE None,
             priority |-> IF Supplied(todo, "priority") THEN todo["priority"][1] ELSE "medium",
             status |-> "pending",
             due_date |-> IF Supplied(todo, "due_date") THEN todo["due_date"] ELSE None,
             created_at |-> t2,
             updated_at |-> t1]
    IN  [db |-> Append(db, new_todo), code |-> 201, body |-> new_todo]

\* create_todo, with the new id and its two clock readings
create_todo(db, todo, id, t1, t2) ==
    LET new_todo ==
            [id |-> id,
             title |-> todo["title"][1],
             description |-> IF Supplied(todo, "description") THEN todo["description"] ELSE None,
             priority |-> IF Supplied(todo, "priority") THEN todo["priority"][1] ELSE "medium",
             status |-> "pending",
             due_date |-> IF Supplied(todo, "due_date") THEN todo["due_date"] ELSE None,
             created_at |-> t1,
             updated_at |-> t2]
    IN  [db |-> Append(db, new_todo), code |-> 201, body |-> new_todo]

\* update_todo
update_todo(db, todo_id, todo_update, now) ==
    LET i == find_todo_by_id(db, todo_id)
    IN  IF i = 0 THEN NotFound(db, todo_id)
        ELSE LET todo == safe_todo_update(db[i], todo_update, now)
             IN  [db |-> [db EXCEPT ![i] = todo], code |-> 200, body |-> todo]

\* partial_update_todo
partial_update_todo(db, todo_id, todo_update, now) ==
    LET i == find_todo_by_id(db, todo_id)
    IN  IF i = 0 THEN NotFound(db, todo_id)
        ELSE LET todo == safe_todo_update(db[i], todo_update, now)
             IN  [db |-> [db EXCEPT ![i] = todo], code |-> 200, body |-> todo]

\* todos_db.pop(index)
Pop(db, index) == SubSeq(db, 1, index - 1) \o SubSeq(db, index + 1, Len(db))

\* delete_todo popping the last todo when the loop finds none
delete_todo_leaky(db, todo_id) ==
    LET index == find_index(db, todo_id, 1)
    IN  IF index = 0
        THEN [db |-> Pop(db, Len(db)), code |-> 404, body |-> [detail |-> todo_id]]
        ELSE [db |-> Pop(db, index), code |-> 200,
              body |-> [deleted_todo |-> db[index],
                        remaining_count |-> Len(Pop(db, index))]]

\* delete_todo popping the last todo instead of the one found
delete_todo_last(db, todo_id) ==
    LET index == find_index(db, todo_id, 1)
    IN  IF index = 0 THEN NotFound(db, todo_id)
        ELSE [db |-> Pop(db, Len(db)), code |-> 200,
              body |-> [deleted_todo |-> db[Len(db)],
                        remaining_count |-> Len(db) - 1]]

\* delete_todo
delete_todo(db, todo_id) ==
    LET index == find_index(db, todo_id, 1)
    IN  IF index = 0 THEN NotFound(db, todo_id)
        ELSE [db |-> Pop(db, index), code |-> 200,
              body |-> [deleted_todo |-> db[index],
                        remaining_count |-> Len(Pop(db, index))]]

\* mark_todo_complete
mark_todo_complete(db, todo_id, now) ==
    LET i == find_todo_by_id(db, todo_id)
    IN  IF i = 0 THEN NotFound(db, todo_id)
        ELSE LET todo == safe_todo_update(db[i], [status |-> Some("completed")], now)
             IN  [db |-> [db EXCEPT ![i] = todo], code |-> 200, body |-> [todo |-> todo]]

\* start_todo with the status of mark_todo_complete
start_todo_completed(db, todo_id, now) ==
    LET i == find_todo_by_id(db, todo_id)
    IN  IF i = 0 THEN NotFound(db, todo_id)
        ELSE LET todo == safe_todo_update(db[i], [status |-> Some("completed")], now)
             IN  [db |-> [db EXCEPT ![i] = todo], code |-> 200, body |-> [todo |-> todo]]

\* start_todo
start_todo(db, todo_id, now) ==
    LET i == find_todo_by_id(db, todo_id)
    IN  IF i = 0 THEN NotFound(db, todo_id)
        ELSE LET todo == safe_todo_update(db[i], [status |-> Some("in_progress")], now)
             IN  [db |-> [db EXCEPT ![i] = todo], code |-> 200, body |-> [todo |-> todo]]

\* A dict is the sequence of its <<key, value>> items in insertion order.
DictKeys(d) == {d[i][1] : i \in 1..Len(d)}

\* dict.get(key, default)
DictGet(d, key, default) ==
    IF key \in DictKeys(d)
    THEN d[CHOOSE i \in 1..Len(d) : d[i][1] = key][2]
    ELSE default

\* dict[key] = value
DictSet(d, key, value) ==
    IF key \in DictKeys(d)
    THEN [i \in 1..Len(d) |-> IF d[i][1] = key THEN <<key, value>> ELSE d[i]]
    ELSE Append(d, <<key, value>>)

\* {member.value: 0 for member in enum}
ZeroCounts(enum) == [i \in 1..Len(enum) |-> <<enum[i], 0>>]

\* the loop of get_todo_stats over todos_db[i..], on by_status
RECURSIVE CountByStatus(_, _, _)
CountByStatus(db, i, by_status) ==
    IF i > Len(db) THEN by_status
    ELSE LET status_key == StrOfStatus(db[i]["status"])
         IN  CountByStatus(db, i + 1,
                 DictSet(by_status, status_key, DictGet(by_status, status_key, 0) + 1))

\* the same loop, on by_priority
RECURSIVE CountByPriority(_, _, _)
CountByPriority(db, i, by_priority) ==
    IF i > Len(db) THEN by_priority
    ELSE LET priority_key == StrOfPriority(db[i]["priority"])
         IN  CountByPriority(db, i + 1,
                 DictSet(by_priority, priority_key, DictGet(by_priority, priority_key, 0) + 1))

\* round(count / total * 100, 2), in hundredths of a percent. No quotient
\* count / total with total < 32 lies half-way between two hundredths.
CompletionRate(count, total) == (2 * 10000 * count + total) \div (2 * total)

\* get_todo_stats: the dict the handler returns
get_todo_stats(db) ==
    LET total == Len(db)
        by_status == CountByStatus(db, 1, ZeroCounts(TodoStatus))
        by_priority == CountByPriority(db, 1, ZeroCounts(TodoPriority))
        completed_count == DictGet(by_status, "completed", 0)
    IN  IF total = 0
        THEN [total_todos |-> 0,
              by_status |-> <<>>,
              by_priority |-> <<>>,
              completion_rate |-> 0,
              message |-> "no todos"]
        ELSE [total_todos |-> total,
              by_status |-> by_status,
              by_priority |-> by_priority,
              completion_rate |-> CompletionRate(completed_count, total),
              highest_priority_count |-> DictGet(by_priority, "high", 0)]

\* The response of an endpoint declared with response_model: the returned
\* value when it validates against the model, a server error otherwise.
serialize_response(db, valid, content) ==
    IF valid THEN [db |-> db, code |-> 200, body |-> content]
    ELSE [db |-> db, code |-> 500, body |-> [detail |-> "Internal Server Error"]]

\* the loop of search_todos over todos_db[i..]
RECURSIVE SearchLoop(_, _, _, _)
SearchLoop(db, i, search_term, results) ==
    IF i > Len(db) THEN results
    ELSE LET todo == db[i]
             title_match == Contains(Lower(todo["title"]), search_term)
             description_match ==
                 IF todo["description"] # None
                 THEN Contains(Lower(todo["description"][1]), search_term)
                 ELSE FALSE
         IN  SearchLoop(db, i + 1, search_term,
                 IF title_match \/ description_match THEN Append(results, todo)
                 ELSE results)

\* search_todos counting the page instead of the matches
search_todos_page_count(db, q, skip, limit) ==
    IF q = <<>> \/ Len(Strip(q)) = 0
    THEN [db |-> db, code |-> 400, body |-> [detail |-> "empty search term"]]
    ELSE LET search_term == Strip(Lower(q))
             results == SearchLoop(db, 1, search_term, <<>>)
         IN  [db |-> db, code |-> 200,
              body |-> [results |-> PySlice(results, skip, skip + limit),
                        total_found |-> Len(PySlice(results, skip, skip + limit)),
                        search_term |-> search_term]]

\* search_todos
search_todos(db, q, skip, limit) ==
    IF q = <<>> \/ Len(Strip(q)) = 0
    THEN [db |-> db, code |-> 400, body |-> [detail |-> "empty search term"]]
    ELSE LET search_term == Strip(Lower(q))
             results == SearchLoop(db, 1, search_term, <<>>)
         IN  [db |-> db, code |-> 200,
              body |-> [results |-> PySlice(results, skip, skip + limit),
                        total_found |-> Len(results),
                        search_term |-> search_term]]

\* A request FastAPI rejects before the handler runs.
Unprocessable(db) ==
    [db |-> db, code |-> 422, body |-> [detail |-> "validation error"]]

\* ---------------------------------------------------------------- inputs

\* The todo_id segments of delete requests: every identifier the store may
\* hand out, and a word that is none.
PathIds == {UUIDs[i] : i \in 1..MaxIds} \cup {"search"}

\* The todo_id segments of update and mark requests: a sample's and the last
\* identifier the store may hand out (no todo has it before it is created
\* and after it is deleted).
TargetIds == {UUIDs[1], UUIDs[MaxIds]}

\* The todo_id segments of lookup requests: those, and a word that is none.
LookupIds == TargetIds \cup {"search"}

EmptyBody == [f \in {} |-> None]

\* POST bodies: a minimal one, a full one (with a status, which TodoCreate
\* has no field for), and three that do not validate.
CreateBodies ==
    << [title |-> Some(<<"A", "p", "i">>)],
       [title |-> Some(<<"D", "o", "c", "s">>),
        description |-> Some(<<"A", "P", "I", " ", "d", "o", "c">>),
        priority |-> Some("high"),
        status |-> Some("completed"),
        due_date |-> Some("2024-02-01")],
       [title |-> Some(<<>>)],
       [title |-> Some(Rep("x", TitleMaxLen + 1))],
       [title |-> Some(<<"o", "k">>),
        description |-> Some(Rep("y", DescriptionMaxLen + 1))] >>

\* PUT and PATCH bodies: empty, fields with values and explicit nulls, and
\* three that do not validate.
UpdateBodies ==
    << EmptyBody,
       [title |-> Some(<<"N", "e", "w">>), description |-> None],
       [title |-> None, description |-> Some(<<"a", "p", "i">>),
        priority |-> Some("high"), status |-> Some("completed"),
        due_date |-> Some("2024-03-01")],
       [title |-> Some(<<>>), status |-> Some("completed")],
       [description |-> Some(Rep("y", DescriptionMaxLen + 1))],
       [title |-> Some(Rep("x", TitleMaxLen + 1))] >>

\* The update bodies of the specification of every operation: one with
\* values and a null, and those that do not validate.
FewUpdates == {3, 4, 5, 6}

\* skip and limit of a list or search request
Pages ==
    { <<DefaultSkip, DefaultLimit>>, <<0, 1>>, <<1, 1>>, <<1, DefaultLimit>>,
      <<2, 0>>, <<-1, DefaultLimit>> }

\* status_filter and priority of a list request
Filters ==
    { <<None, None>>, <<Some("completed"), None>>, <<None, Some("high")>>,
      <<Some("pending"), Some("low")>> }

\* q of a search request: None when the parameter is missing
Queries ==
    { None, Some(<<>>), Some(<<" ", " ", " ">>), Some(<<" ", "A", "P", "I", " ">>),
      Some(<<"f", "a", "s", "t", "a", "p", "i">>), Some(<<"A", "s", "y", "n", "c">>) }

\* The list and search requests of the specification of every operation.
FewPages == { <<DefaultSkip, DefaultLimit>> }
FewFilters == { <<None, None>> }
FewQueries == { None, Some(<<" ", " ", " ">>), Some(<<" ", "A", "P", "I", " ">>) }

\* requests that reach no handler of the router
OtherRequests ==
    { <<"GET", <<"id1", "">>>>, <<"GET", <<"search", "id1">>>>, <<"POST", <<"id1">>>> }

\* ---------------------------------------------------------- state machine

Init ==
    /\ \E t \in SampleTimes :
          /\ todos_db = initialize_sample_data(t)
          /\ clock = t[6]
    /\ issued = 3
    /\ ops = 0
    /\ last = [endpoint |-> "startup", path |-> <<>>, req |-> <<>>, code |-> 0, body |-> <<>>]

\* The outcome is a collection with a new or a changed todo.
Written(out) == out.db # todos_db /\ Len(out.db) >= Len(todos_db)

\* The handler's outcome becomes the state (req names the request's inputs, a
\* body by its place in CreateBodies or UpdateBodies): a handler that wrote a
\* todo spends one of the MaxOps.
Respond(endpoint, path, req, out, now, ids) ==
    /\ Written(out) => ops < MaxOps
    /\ todos_db' = out.db
    /\ ops' = IF Written(out) THEN ops + 1 ELSE ops
    /\ clock' = now
    /\ issued' = issued + ids
    /\ last' = [endpoint |-> endpoint, path |-> path, req |-> req,
                code |-> out.code, body |-> out.body]

GetAllTodos(pages, filters) ==
    \E page \in pages, filter \in filters :
        /\ Dispatch("GET", <<"">>) = "get_all_todos"
        /\ Respond("get_all_todos", <<"">>,
                   [skip |-> page[1], limit |-> page[2],
                    status_filter |-> filter[1], priority |-> filter[2]],
                   get_all_todos(todos_db, page[1], page[2], filter[1], filter[2]),
                   clock, 0)

GetTodoById(ids) ==
    \E id \in ids :
        /\ Dispatch("GET", <<id>>) = "get_todo_by_id"
        /\ Respond("get_todo_by_id", <<id>>, [todo_id |-> id],
                   get_todo_by_id(todos_db, id), clock, 0)

\* The body is validated against TodoCreate before the handler runs.
CreateTodo(bodies) ==
    \E b \in bodies :
        /\ Dispatch("POST", <<"">>) = "create_todo"
        /\ IF TodoCreate(CreateBodies[b])
           THEN /\ issued < MaxIds
                /\ \E t1 \in get_current_timestamp(clock) :
                   \E t2 \in get_current_timestamp(t1) :
                       Respond("create_todo", <<"">>, [todo |-> b],
                               create_todo(todos_db, CreateBodies[b], generate_id, t1, t2),
                               t2, 1)
           ELSE Respond("create_todo", <<"">>, [todo |-> b],
                        Unprocessable(todos_db), clock, 0)

\* The body is validated against TodoUpdate before the handler runs.
UpdateTodo(ids, bodies) ==
    \E id \in ids, b \in bodies :
        /\ Dispatch("PUT", <<id>>) = "update_todo"
        /\ IF TodoUpdate(UpdateBodies[b])
           THEN \E now \in get_current_timestamp(clock) :
                   LET out == update_todo(todos_db, id, UpdateBodies[b], now)
                   IN  Respond("update_todo", <<id>>,
                               [todo_id |-> id, todo_update |-> b],
                               out, IF out.code = 200 THEN now ELSE clock, 0)
           ELSE Respond("update_todo", <<id>>,
                        [todo_id |-> id, todo_update |-> b],
                        Unprocessable(todos_db), clock, 0)

PartialUpdateTodo(ids, bodies) ==
    \E id \in ids, b \in bodies :
        /\ Dispatch("PATCH", <<id>>) = "partial_update_todo"
        /\ IF TodoUpdate(UpdateBodies[b])
           THEN \E now \in get_current_timestamp(clock) :
                   LET out == partial_update_todo(todos_db, id, UpdateBodies[b], now)
                   IN  Respond("partial_update_todo", <<id>>,
                               [todo_id |-> id, todo_update |-> b],
                               out, IF out.code = 200 THEN now ELSE clock, 0)
           ELSE Respond("partial_update_todo", <<id>>,
                        [todo_id |-> id, todo_update |-> b],
                        Unprocessable(todos_db), clock, 0)

DeleteTodo(ids) ==
    \E id \in ids :
        /\ Dispatch("DELETE", <<id>>) = "delete_todo"
        /\ Respond("delete_todo", <<id>>, [todo_id |-> id],
                   delete_todo(todos_db, id), clock, 0)

\* The handler's dict is validated against StatsResponse on the way out.
GetTodoStats ==
    /\ Dispatch("GET", <<"stats", "summary">>) = "get_todo_stats"
    /\ Respond("get_todo_stats", <<"stats", "summary">>, <<>>,
               serialize_response(todos_db, StatsResponse(get_todo_stats(todos_db)),
                                  get_todo_stats(todos_db)),
               clock, 0)

\* Whether the request before this one went to the same endpoint and path
\* and succeeded (kept with the request of a mark, to tell a second call).
Again(endpoint, path) ==
    last.endpoint = endpoint /\ last.path = path /\ last.code = 200

MarkTodoComplete(ids) ==
    \E id \in ids, now \in get_current_timestamp(clock) :
        /\ Dispatch("PATCH", <<id, "complete">>) = "mark_todo_complete"
        /\ LET out == mark_todo_complete(todos_db, id, now)
           IN  Respond("mark_todo_complete", <<id, "complete">>,
                       [todo_id |-> id,
                        again |-> Again("mark_todo_complete", <<id, "complete">>)],
                       out, IF out.code = 200 THEN now ELSE clock, 0)

StartTodo(ids) ==
    \E id \in ids, now \in get_current_timestamp(clock) :
        /\ Dispatch("PATCH", <<id, "start">>) = "start_todo"
        /\ LET out == start_todo(todos_db, id, now)
           IN  Respond("start_todo", <<id, "start">>,
                       [todo_id |-> id, again |-> Again("start_todo", <<id, "start">>)],
                       out, IF out.code = 200 THEN now ELSE clock, 0)

\* GET on the search path as the router registers it: q is required, so a
\* request without it is rejected before the handler runs.
SearchTodos(queries, pages) ==
    \E q \in queries, page \in pages :
        /\ Dispatch("GET", <<"search", "">>) = "search_todos"
        /\ Respond("search_todos", <<"search", "">>,
                   [q |-> q, skip |-> page[1], limit |-> page[2]],
                   IF q = None THEN Unprocessable(todos_db)
                   ELSE search_todos(todos_db, q[1], page[1], page[2]),
                   clock, 0)

\* A request that reaches no handler.
Unrouted(requests) ==
    \E r \in requests :
        /\ Dispatch(r[1], r[2]) \in {"404", "405", "307"}
        /\ Respond(Dispatch(r[1], r[2]), r[2], [method |-> r[1]],
                   [db |-> todos_db,
                    code |-> CASE Dispatch(r[1], r[2]) = "404" -> 404
                               [] Dispatch(r[1], r[2]) = "405" -> 405
                               [] Dispatch(r[1], r[2]) = "307" -> 307,
                    body |-> <<>>],
                   clock, 0)

\* Every operation, on few inputs each.
Next ==
    \/ GetAllTodos(FewPages, FewFilters)
    \/ GetTodoById(LookupIds)
    \/ CreateTodo(1..Len(CreateBodies))
    \/ UpdateTodo(TargetIds, FewUpdates)
    \/ PartialUpdateTodo(TargetIds, FewUpdates)
    \/ DeleteTodo(LookupIds)
    \/ GetTodoStats
    \/ MarkTodoComplete(TargetIds)
    \/ StartTodo(TargetIds)
    \/ SearchTodos(FewQueries, FewPages)
    \/ Unrouted(OtherRequests)

Spec == Init /\ [][Next]_vars

\* The statistics, over collections of every size down to the empty one.
NextStats ==
    \/ CreateTodo({1, 2})
    \/ DeleteTodo(PathIds)
    \/ MarkTodoComplete(TargetIds)
    \/ StartTodo(TargetIds)
    \/ GetTodoStats

SpecStats == Init /\ [][NextStats]_vars

\* Update and partial update, on every body.
NextUpdate ==
    \/ CreateTodo({1, 2})
    \/ DeleteTodo(TargetIds)
    \/ UpdateTodo(TargetIds, 1..Len(UpdateBodies))
    \/ PartialUpdateTodo(TargetIds, 1..Len(UpdateBodies))

SpecUpdate == Init /\ [][NextUpdate]_vars

\* The two marks.
NextMark ==
    \/ CreateTodo({1, 2})
    \/ DeleteTodo(TargetIds)
    \/ MarkTodoComplete(LookupIds)
    \/ StartTodo(LookupIds)

SpecMark == Init /\ [][NextMark]_vars

\* List and search, on every page, filter and query.
NextQuery ==
    \/ CreateTodo({1, 2})
    \/ DeleteTodo(TargetIds)
    \/ GetAllTodos(Pages, Filters)
    \/ SearchTodos(Queries, Pages)

SpecQuery == Init /\ [][NextQuery]_vars

\* ---------------------------------------------------------------- claims

\* The places of the todos with an id, and the todos counted by a field.
Holders(db, id) == {i \in 1..Len(db) : db[i]["id"] = id}
CountOf(db, field, value) == Cardinality({i \in 1..Len(db) : db[i][field] = value})

\* The n-th place, in order, of a set of places, and the page [skip, skip +
\* limit) of the todos at those places.
Nth(places, n) == CHOOSE i \in places : Cardinality({m \in places : m <= i}) = n
PageOf(db, places, skip, limit) ==
    [k \in 1..Max(0, Min(limit, Cardinality(places) - skip)) |->
        db[Nth(places, skip + k)]]

\* C1: on a non-empty collection the statistics give the size, the count of
\* every status and of every priority under exactly the enum's values, the
\* share of completed todos in hundredths of a percent, and the count of
\* high-priority todos.
C1_StatsCounts ==
    (last.endpoint = "get_todo_stats" /\ Len(todos_db) > 0) =>
        /\ last.code = 200
        /\ last.body["total_todos"] = Len(todos_db)
        /\ DictKeys(last.body["by_status"]) = StatusValues
        /\ \A v \in StatusValues :
              DictGet(last.body["by_status"], v, 0) = CountOf(todos_db, "status", v)
        /\ DictKeys(last.body["by_priority"]) = PriorityValues
        /\ \A v \in PriorityValues :
              DictGet(last.body["by_priority"], v, 0) = CountOf(todos_db, "priority", v)
        /\ last.body["completion_rate"] =
              CompletionRate(CountOf(todos_db, "status", "completed"), Len(todos_db))
        /\ last.body["highest_priority_count"] = CountOf(todos_db, "priority", "high")

\* C2: the statistics request always answers 200 with a body of the declared
\* shape, and on the empty collection that body has total_todos 0, empty
\* breakdowns, completion_rate 0 and a message.
C2_StatsAlwaysAnswers ==
    last.endpoint = "get_todo_stats" =>
        /\ last.code = 200
        /\ StatsResponse(last.body)
        /\ Len(todos_db) = 0 =>
              /\ last.body["total_todos"] = 0
              /\ last.body["by_status"] = <<>>
              /\ last.body["by_priority"] = <<>>
              /\ last.body["completion_rate"] = 0
              /\ "message" \in DOMAIN last.body

\* C3: a request that ends in an error (not found, a body that does not
\* validate, a blank search term) leaves the collection as it was.
C3_ErrorsLeaveCollection ==
    [][last'.code >= 400 => todos_db' = todos_db]_vars

\* C3 happens: an update of a todo that exists was rejected for its body,
\* after the collection had been written to.
C3_Witness ==
    /\ last.endpoint = "update_todo"
    /\ last.code = 422
    /\ Holders(todos_db, last.req["todo_id"]) # {}
    /\ ops > 0

\* The step is a delete that succeeded: the one todo with the id is gone, the
\* others keep their values and order, and remaining_count is the new size.
DeleteEffect ==
    (last'.endpoint = "delete_todo" /\ last'.code = 200) =>
        LET id == last'.req["todo_id"]
        IN  /\ Cardinality(Holders(todos_db, id)) = 1
            /\ LET i == CHOOSE i \in Holders(todos_db, id) : TRUE
               IN  /\ Len(todos_db') = Len(todos_db) - 1
                   /\ \A j \in 1..Len(todos_db') :
                         todos_db'[j] = IF j < i THEN todos_db[j] ELSE todos_db[j + 1]
                   /\ last'.body["deleted_todo"] = todos_db[i]
                   /\ last'.body["remaining_count"] = Len(todos_db')
                   /\ Holders(todos_db', id) = {}

\* An identifier handed out and held by no todo is held by none afterwards.
GoneStaysGone ==
    \A k \in 1..issued :
        Holders(todos_db, UUIDs[k]) = {} => Holders(todos_db', UUIDs[k]) = {}

\* A lookup of an id no todo holds answers 404.
LookupOfGone ==
    (last'.endpoint = "get_todo_by_id" /\ Holders(todos_db', last'.req["todo_id"]) = {})
        => last'.code = 404

UniqueIds ==
    \A i, j \in 1..Len(todos_db) : todos_db[i]["id"] = todos_db[j]["id"] => i = j

\* C4: a delete removes exactly the todo with the id and reports the new
\* size; ids are unique among the todos and never handed out again, so the
\* id is held by no todo, and its lookup answers 404, whatever runs later.
C4_DeleteIsFinal ==
    /\ []UniqueIds
    /\ [][DeleteEffect /\ GoneStaysGone /\ LookupOfGone]_vars

\* C4 happens: a sample was deleted, a todo was created, and the lookup of
\* the sample's id answered 404.
C4_Witness ==
    /\ last.endpoint = "get_todo_by_id"
    /\ last.req["todo_id"] = UUIDs[1]
    /\ last.code = 404
    /\ issued = MaxIds
    /\ Len(todos_db) = 3

\* C5: every todo of the collection has created_at <= updated_at.
C5_CreatedBeforeUpdated ==
    \A i \in 1..Len(todos_db) : todos_db[i]["created_at"] <= todos_db[i]["updated_at"]

\* C5 happens: a todo created with a tick between its two clock readings is
\* in the collection beside a sample updated after its creation.
C5_Witness ==
    /\ \E i \in 1..Len(todos_db) :
          /\ todos_db[i]["id"] = UUIDs[MaxIds]
          /\ todos_db[i]["created_at"] < todos_db[i]["updated_at"]
    /\ \E i \in 1..Len(todos_db) :
          /\ todos_db[i]["id"] = UUIDs[1]
          /\ todos_db[i]["created_at"] < todos_db[i]["updated_at"]

\* Update and partial update give the same outcome on the same collection,
\* id, body and clock reading.
UpdateIsPartialUpdate ==
    \A id \in TargetIds, b \in 1..Len(UpdateBodies), now \in get_current_timestamp(clock) :
        update_todo(todos_db, id, UpdateBodies[b], now)
            = partial_update_todo(todos_db, id, UpdateBodies[b], now)

\* The step is an update that succeeded: each field sent with a value has
\* that value, each field not sent or sent null is as it was, updated_at is
\* the clock's reading, id and created_at and the other todos are as they were.
UpdateEffect ==
    (last'.endpoint \in {"update_todo", "partial_update_todo"} /\ last'.code = 200) =>
        LET id == last'.req["todo_id"]
            body == UpdateBodies[last'.req["todo_update"]]
        IN  /\ Cardinality(Holders(todos_db, id)) = 1
            /\ LET i == CHOOSE i \in Holders(todos_db, id) : TRUE
               IN  /\ Len(todos_db') = Len(todos_db)
                   /\ \A j \in 1..Len(todos_db) : j # i => todos_db'[j] = todos_db[j]
                   /\ todos_db'[i]["id"] = todos_db[i]["id"]
                   /\ todos_db'[i]["created_at"] = todos_db[i]["created_at"]
                   /\ \A f \in UpdateFields :
                         todos_db'[i][f] =
                             IF f \in DOMAIN body /\ body[f] # <<>>
                             THEN IF f \in {"description", "due_date"}
                                  THEN body[f] ELSE body[f][1]
                             ELSE todos_db[i][f]
                   /\ todos_db'[i]["updated_at"] = clock'
                   /\ clock' >= todos_db[i]["updated_at"]
                   /\ last'.body = todos_db'[i]

C7_SearchIsRouted ==
    /\ last.endpoint = "search_todos" =>
          IF last.req["q"] # None /\ \E k \in 1..Len(last.req["q"][1]) : ~IsSpace(last.req["q"][1][k])
          THEN last.code = 200
          ELSE last.code = 400
    /\ ~(last.endpoint = "get_todo_by_id" /\ last.path = <<"search">>)

\* The places of the todos a list request's filters keep.
Filtered(db, status_filter, priority) ==
    {i \in 1..Len(db) :
        /\ status_filter # None => db[i]["status"] = status_filter[1]
        /\ priority # None => db[i]["priority"] = priority[1]}

\* The answer to a list request is the page of the filtered todos.
ListAnswer ==
    last.endpoint = "get_all_todos" =>
        /\ last.code = 200
        /\ (last.req["skip"] >= 0 /\ last.req["limit"] >= 0) =>
              last.body["array"] = PageOf(todos_db,
                                 Filtered(todos_db, last.req["status_filter"], last.req["priority"]),
                                 last.req["skip"], last.req["limit"])
        /\ ( /\ last.req["skip"] = DefaultSkip
             /\ last.req["limit"] = DefaultLimit
             /\ last.req["status_filter"] = None
             /\ last.req["priority"] = None
             /\ Len(todos_db) <= DefaultLimit ) => last.body["array"] = todos_db

\* C8: a list request with skip >= 0 and limit >= 0 answers the todos at
\* places [skip, skip + limit) of those the filters keep, in insertion order
\* (all of a collection of at most ten by default), and leaves the collection.
C8_ListIsFilteredPage ==
    /\ []ListAnswer
    /\ [][last'.endpoint = "get_all_todos" => todos_db' = todos_db]_vars

\* C8 happens: a list filtered by priority skipped one match and answered
\* the next one, which is not the second todo of the collection.
C8_Witness ==
    /\ last.endpoint = "get_all_todos"
    /\ last.req["priority"] = Some("high")
    /\ last.req["skip"] = 1
    /\ Len(last.body["array"]) = 1
    /\ last.body["array"][1] # todos_db[2]

\* The places of the todos whose lowered title, or lowered description when
\* there is one, contains the trimmed and lowered query.
Matching(db, q) ==
    {i \in 1..Len(db) :
        \/ Contains(Lower(db[i]["title"]), Lower(Strip(q)))
        \/ /\ db[i]["description"] # None
           /\ Contains(Lower(db[i]["description"][1]), Lower(Strip(q)))}

\* C9: a search with a query that is not blank answers total_found, the
\* number of all matching todos whatever skip and limit are, and, for skip
\* >= 0 and limit >= 0, the matches at places [skip, skip + limit) in the
\* order of the collection; a query that is empty or all whitespace answers 400.
C9_SearchIsMatchingPage ==
    (last.endpoint = "search_todos" /\ last.req["q"] # None) =>
        LET q == last.req["q"][1]
        IN  IF \A k \in 1..Len(q) : IsSpace(q[k])
            THEN last.code = 400
            ELSE /\ last.code = 200
                 /\ last.body["total_found"] = Cardinality(Matching(todos_db, q))
                 /\ (last.req["skip"] >= 0 /\ last.req["limit"] >= 0) =>
                       last.body["results"] =
                           PageOf(todos_db, Matching(todos_db, q),
                                  last.req["skip"], last.req["limit"])

\* C9 happens: a search matched three todos, one of them by its description
\* alone, and answered one of them after skipping one.
C9_Witness ==
    /\ last.endpoint = "search_todos"
    /\ last.code = 200
    /\ last.req["skip"] = 1
    /\ last.body["total_found"] = 3
    /\ Len(last.body["results"]) = 1
    /\ \E i \in 1..Len(todos_db) :
          /\ ~Contains(Lower(todos_db[i]["title"]), last.body["search_term"])
          /\ i \in Matching(todos_db, last.req["q"][1])

\* The step is a mark that succeeded: the todo has the status and the
\* clock's reading as updated_at, and nothing else of the collection changed.
MarkEffect(endpoint, status) ==
    (last'.endpoint = endpoint /\ last'.code = 200) =>
        LET id == last'.req["todo_id"]
        IN  /\ Cardinality(Holders(todos_db, id)) = 1
            /\ LET i == CHOOSE i \in Holders(todos_db, id) : TRUE
               IN  /\ todos_db' = [todos_db EXCEPT ![i] =
                                     [todos_db[i] EXCEPT !["status"] = status,
                                                         !["updated_at"] = clock']]
                   /\ clock' >= todos_db[i]["updated_at"]
                   /\ last'.body["todo"] = todos_db'[i]
                   /\ last'.req["again"] => todos_db[i]["status"] = status

\* C10: mark complete sets status completed and mark in progress sets status
\* in_progress; either changes only the status and updated_at of its todo,
\* and a second call in a row changes only updated_at.
C10_MarksSetStatusOnly ==
    [][/\ MarkEffect("mark_todo_complete", "completed")
       /\ MarkEffect("start_todo", "in_progress")]_vars

\* C10 happens: a created todo was marked complete twice in a row, after the
\* clock had ticked.
C10_Witness ==
    /\ last.endpoint = "mark_todo_complete"
    /\ last.code = 200
    /\ last.req["again"]
    /\ last.req["todo_id"] = UUIDs[MaxIds]
    /\ last.body["todo"]["status"] = "completed"
    /\ last.body["todo"]["updated_at"] > last.body["todo"]["created_at"]

====
